---------------------------- MODULE Spec2Model ----------------------------
(***************************************************************************)
(* Model of client/src/core/task_handler.rs: TaskHandler owns a FIFO       *)
(* task_queue and a Vec of TaskHandle; start() consumes the handler and    *)
(* loops run_tasks(); clean_handles(); sleep(50ms).                        *)
(*                                                                         *)
(* Tasks are spawned with tokio::task::spawn_local, i.e. on the thread of  *)
(* the run loop: a spawned computation makes progress only while the loop  *)
(* is suspended at the sleep.                                              *)
(***************************************************************************)
EXTENDS Integers, Sequences, FiniteSets, TLC

\* ------------------------------------------------------------- bounds
\* number of add_task calls explored
MaxTasks == 3
\* the tick counter saturates here (the loop itself never stops)
MaxTicks == 3
\* number of add_task calls explored in the runs checked for liveness
MaxFairTasks == 2

\* ------------------------------------------------------------- inputs
\* TaskMeta.name values handed to add_task (duplicates allowed)
Names == {"A", "B", "C"}
\* what the computation returned by Task::execute does once polled:
\*   "immediate" completes in its first poll (during the sleep after its spawn),
\*   "finite"    completes during some later suspension of the loop, or never,
\*   "forever"   never completes (e.g. a polling loop)
Bodies == {"immediate", "finite", "forever"}
\* how a computation can end: returning, or panicking (tokio stores the
\* panic in the JoinHandle; is_finished() is true in both cases)
Outcomes == {"ok", "panicked"}

TaskIds == 1..MaxTasks

VARIABLES
    task_queue,   \* TaskHandler.task_queue: VecDeque<Box<dyn Task>>
    handles,      \* TaskHandler.handles: Vec<TaskHandle>
    comp,         \* per task id: state of the computation behind its JoinHandle
    pc,           \* where the handler is: "new" (owned by the producer),
                  \* "run_tasks", "clean_handles", "sleep" (inside start())
    enqueued,     \* history: the tasks passed to add_task, in call order
    spawnLog,     \* history: ids in the order spawn_local was called
    pruned,       \* history: ids a clean_handles pass observed as finished
    ticks         \* history: number of run_tasks passes, saturating at MaxTicks

vars == <<task_queue, handles, comp, pc, enqueued, spawnLog, pruned, ticks>>

\* ------------------------------------------------------------- helpers
Min(a, b) == IF a < b THEN a ELSE b

RECURSIVE SeqFilter(_, _)
\* the subsequence of s whose elements are in the set keep
SeqFilter(s, keep) ==
    IF s = <<>> THEN <<>>
    ELSE IF Head(s) \in keep THEN <<Head(s)>> \o SeqFilter(Tail(s), keep)
         ELSE SeqFilter(Tail(s), keep)

Range(s) == {s[i] : i \in 1..Len(s)}

\* ids / names carried by a sequence of handles or tasks
HandleIds(hs) == [i \in 1..Len(hs) |-> hs[i].handle]
HandleNames(hs) == [i \in 1..Len(hs) |-> hs[i].task_meta.name]
TaskIdsOf(q) == [i \in 1..Len(q) |-> q[i].id]

\* ------------------------------------------------------------- TaskHandler::new
Init ==
    /\ task_queue = <<>>
    /\ handles = <<>>
    /\ comp = [i \in TaskIds |-> "unspawned"]
    /\ pc = "new"
    /\ enqueued = <<>>
    /\ spawnLog = <<>>
    /\ pruned = {}
    /\ ticks = 0

\* ------------------------------------------------------------- add_task
\* start(mut self) takes the handler by value: add_task(&mut self) can be
\* called only while the producer still owns the handler.
CanAddTaskAfterStart == TRUE
CanAddTask == pc = "new"

PushFront(q, t) == <<t>> \o q
PushBack(q, t) == Append(q, t)

AddTask(name, body) ==
    /\ CanAddTask
    /\ Len(enqueued) < MaxTasks
    /\ LET t == [id |-> Len(enqueued) + 1, name |-> name, body |-> body]
       IN  /\ task_queue' = PushBack(task_queue, t)
           /\ enqueued' = Append(enqueued, t)
    /\ UNCHANGED <<handles, comp, pc, spawnLog, pruned, ticks>>

\* ------------------------------------------------------------- start
\* the producer hands the handler over to the run loop
StartAtClean ==
    /\ pc = "new"
    /\ pc' = "clean_handles"
    /\ UNCHANGED <<task_queue, handles, comp, enqueued, spawnLog, pruned, ticks>>

Start ==
    /\ pc = "new"
    /\ pc' = "run_tasks"
    /\ UNCHANGED <<task_queue, handles, comp, enqueued, spawnLog, pruned, ticks>>

\* ------------------------------------------------------------- TaskHandle::create
CreateAnonymous(t) == [task_meta |-> [name |-> "A"], handle |-> t.id]
Create(t) == [task_meta |-> [name |-> t.name], handle |-> t.id]

\* ------------------------------------------------------------- run_tasks
\* Each of these takes the queue q, the handles hs and the spawn events sp so
\* far and gives <<queue left, handles, spawn events>>.
RECURSIVE DrainLifo(_, _, _)
DrainLifo(q, hs, sp) ==
    IF q = <<>> THEN <<q, hs, sp>>
    ELSE DrainLifo(SubSeq(q, 1, Len(q) - 1), Append(hs, Create(q[Len(q)])),
                   Append(sp, q[Len(q)].id))

DrainOne(q, hs, sp) ==
    IF q = <<>> THEN <<q, hs, sp>>
    ELSE <<Tail(q), Append(hs, Create(Head(q))), Append(sp, Head(q).id)>>

DrainKeep(q, hs, sp) ==
    <<q, hs \o [i \in 1..Len(q) |-> Create(q[i])], sp \o [i \in 1..Len(q) |-> q[i].id]>>

DrainPhantom(q, hs, sp) ==
    IF q = <<>> THEN <<q, Append(hs, [task_meta |-> [name |-> "A"], handle |-> 1]), Append(sp, 1)>>
    ELSE <<<<>>, hs \o [i \in 1..Len(q) |-> Create(q[i])], sp \o [i \in 1..Len(q) |-> q[i].id]>>

RECURSIVE Drain(_, _, _)
\* while let Some(t) = task_queue.pop_front() {
\*     let t_handle = TaskHandle::create(t);   // spawn_local(t.execute())
\*     handles.push(t_handle) }
Drain(q, hs, sp) ==
    IF q = <<>> THEN <<q, hs, sp>>
    ELSE Drain(Tail(q), Append(hs, Create(Head(q))), Append(sp, Head(q).id))

RunTasks ==
    /\ pc = "run_tasks"
    /\ LET r == Drain(task_queue, handles, <<>>)
       IN  /\ task_queue' = r[1]
           /\ handles' = r[2]
           /\ spawnLog' = spawnLog \o r[3]
           /\ comp' = [i \in TaskIds |->
                         IF i \in Range(r[3]) THEN "running" ELSE comp[i]]
    /\ ticks' = Min(ticks + 1, MaxTicks)
    /\ pc' = "clean_handles"
    /\ UNCHANGED <<enqueued, pruned>>

\* ------------------------------------------------------------- clean_handles
\* JoinHandle::is_finished
IsFinishedOkOnly(h) == comp[h.handle] = "ok"
IsFinished(h) == comp[h.handle] \in Outcomes

KeepFinished(h) == IsFinished(h)
KeepNone(h) == FALSE
\* the retain closure: false removes the handle, true keeps it
Keep(h) == ~IsFinished(h)

RetainFirstOnly(hs) ==
    LET fin == {i \in 1..Len(hs) : ~Keep(hs[i])}
    IN  IF fin = {} THEN hs
        ELSE LET k == CHOOSE i \in fin : \A j \in fin : i <= j
             IN  SubSeq(hs, 1, k - 1) \o SubSeq(hs, k + 1, Len(hs))
RECURSIVE SwapRemoveFrom(_, _)
SwapRemoveFrom(hs, k) ==
    IF k > Len(hs) THEN hs
    ELSE IF Keep(hs[k]) THEN SwapRemoveFrom(hs, k + 1)
    ELSE SwapRemoveFrom([i \in 1..(Len(hs) - 1) |-> IF i = k THEN hs[Len(hs)] ELSE hs[i]], k)

RetainSwapRemove(hs) == SwapRemoveFrom(hs, 1)
\* Vec::retain
Retain(hs) == SeqFilter(hs, {h \in Range(hs) : Keep(h)})

CleanHandles ==
    /\ pc = "clean_handles"
    /\ handles' = Retain(handles)
    /\ pruned' = pruned \cup {h.handle : h \in {x \in Range(handles) : IsFinished(x)}}
    /\ pc' = "sleep"
    /\ UNCHANGED <<task_queue, comp, enqueued, spawnLog, ticks>>

\* ------------------------------------------------------------- the spawned computations
Body(i) == enqueued[i].body

\* a spawned computation ends; it runs on the loop's thread, so only while
\* the loop is suspended at time::sleep(..).await
FinishAnyTime(i, outcome) ==
    /\ comp[i] = "running"
    /\ Body(i) # "forever"
    /\ comp' = [comp EXCEPT ![i] = outcome]
    /\ UNCHANGED <<task_queue, handles, pc, enqueued, spawnLog, pruned, ticks>>

Finish(i, outcome) ==
    /\ pc = "sleep"
    /\ comp[i] = "running"
    /\ Body(i) # "forever"
    /\ comp' = [comp EXCEPT ![i] = outcome]
    /\ UNCHANGED <<task_queue, handles, pc, enqueued, spawnLog, pruned, ticks>>

\* ------------------------------------------------------------- sleep
\* time::sleep(Duration::from_millis(50)).await returns and the loop goes
\* round again.  While the loop was suspended the runtime polled every
\* spawned task, so a computation that completes in its first poll has ended.
WakeUnlessPanicked ==
    /\ pc = "sleep"
    /\ \A i \in TaskIds : comp[i] # "panicked"
    /\ pc' = "run_tasks"
    /\ UNCHANGED <<task_queue, handles, comp, enqueued, spawnLog, pruned, ticks>>

WakeBounded ==
    /\ pc = "sleep"
    /\ ticks < MaxTicks
    /\ pc' = "run_tasks"
    /\ UNCHANGED <<task_queue, handles, comp, enqueued, spawnLog, pruned, ticks>>

Wake ==
    /\ pc = "sleep"
    /\ LET ready == {i \in TaskIds : comp[i] = "running" /\ Body(i) = "immediate"}
       IN  \E out \in [ready -> Outcomes] :
             comp' = [i \in TaskIds |-> IF i \in ready THEN out[i] ELSE comp[i]]
    /\ pc' = "run_tasks"
    /\ UNCHANGED <<task_queue, handles, enqueued, spawnLog, pruned, ticks>>

Next ==
    \/ \E name \in Names, body \in Bodies : AddTask(name, body)
    \/ Start
    \/ RunTasks
    \/ CleanHandles
    \/ \E i \in TaskIds, outcome \in Outcomes : Finish(i, outcome)
    \/ Wake

Spec == Init /\ [][Next]_vars

\* The liveness claims are checked on runs with at most MaxFairTasks add_task
\* calls.  The loop body is straight-line code and the timer of the runtime
\* fires: each phase of the loop, once reached, is eventually executed.
NextFair ==
    \/ \E name \in Names, body \in Bodies :
          Len(enqueued) < MaxFairTasks /\ AddTask(name, body)
    \/ Start
    \/ RunTasks
    \/ CleanHandles
    \/ \E i \in TaskIds, outcome \in Outcomes : Finish(i, outcome)
    \/ Wake

FairSpec ==
    /\ Init
    /\ [][NextFair]_vars
    /\ WF_vars(RunTasks)
    /\ WF_vars(CleanHandles)
    /\ WF_vars(Wake)

\* ===========================================================================
\* Properties
\* ===========================================================================
IsStrictlyIncreasing(s) == \A i, j \in 1..Len(s) : i < j => s[i] < s[j]
NoDuplicates(s) == \A i, j \in 1..Len(s) : i # j => s[i] # s[j]
Finished(i) == comp[i] \in Outcomes
\* the launch and the prune of tick k have been performed
TickDone(k) == ticks > k \/ (ticks = k /\ pc = "sleep")

\* C1: after any sequence of add_task calls and one launch cycle the pending
\* queue is empty (whatever its length was) and every enqueued task has exactly
\* one handle in the active set, carrying that task's name.
C1_LaunchDrainsQueue ==
    pc = "clean_handles" =>
        /\ task_queue = <<>>
        /\ ticks = 1 =>
             \A i \in 1..Len(enqueued) :
                /\ Cardinality({k \in 1..Len(handles) : handles[k].handle = enqueued[i].id}) = 1
                /\ \A k \in 1..Len(handles) :
                     handles[k].handle = enqueued[i].id =>
                        handles[k].task_meta.name = enqueued[i].name

C1_Witness ==
    /\ pc = "clean_handles"
    /\ ticks = 1
    /\ Len(enqueued) = MaxTasks
    /\ enqueued[1].name = enqueued[2].name
    /\ Len(handles) = MaxTasks

\* C2: tasks are spawned in the order they were enqueued, and their handles
\* stand in the active collection in that order (task ids number the
\* add_task calls).
C2_SpawnOrderIsFifo ==
    /\ spawnLog = TaskIdsOf(SubSeq(enqueued, 1, Len(spawnLog)))
    /\ IsStrictlyIncreasing(HandleIds(handles))
    /\ pc = "clean_handles" /\ ticks = 1 => HandleIds(handles) = spawnLog

C2_Witness ==
    /\ Len(spawnLog) = MaxTasks
    /\ Len(handles) = MaxTasks
    /\ pc = "clean_handles"

\* C3 (as stated): the prune pass that removes a finished handle decreases the
\* size of the active set by exactly one.
C3_PruneRemovesExactlyOne ==
    [][(pc = "clean_handles" /\ \E k \in 1..Len(handles) : Finished(handles[k].handle))
          => Len(handles') = Len(handles) - 1]_vars

\* C3 (amended): the first prune pass after a computation completes removes its
\* handle; the pass removes every handle finished by then, so the size of the
\* active set decreases by the number of finished handles, and each unfinished
\* handle is left in place.
C3_PruneRemovesAllFinished ==
    [][pc = "clean_handles" =>
          /\ \A k \in 1..Len(handles) :
                Finished(handles[k].handle) <=> handles[k] \notin Range(handles')
          /\ Len(handles') =
                Len(handles) - Cardinality({k \in 1..Len(handles) : Finished(handles[k].handle)})
          /\ Range(handles') \subseteq Range(handles)]_vars

\* the second tick's prune has just removed two handles at once and kept one
C3_Witness ==
    /\ pc = "sleep"
    /\ ticks = 2
    /\ Cardinality(pruned) = 2
    /\ Len(handles) = 1

\* C4: a handle is in the active set iff its computation has been spawned and
\* no prune pass has observed it finished; a finished computation not yet seen
\* by a prune still has its handle, and a pruned handle never comes back.
C4_ActiveIffSpawnedNotPruned ==
    /\ Range(HandleIds(handles)) = Range(spawnLog) \ pruned
    /\ \A i \in pruned : Finished(i)
    /\ \A i \in Range(spawnLog) : comp[i] # "unspawned"

\* a computation has finished during the sleep and its handle is still active,
\* while another one has already been pruned
C4_Witness ==
    /\ pruned # {}
    /\ \E k \in 1..Len(handles) : Finished(handles[k].handle)

\* C5: the active set holds only handles of enqueued tasks, at most one per
\* spawn event; a task is spawned at most once over all cycles and is never
\* both pending and spawned.
C5_NoForeignNoDuplicate ==
    /\ Range(HandleIds(handles)) \subseteq Range(TaskIdsOf(enqueued))
    /\ NoDuplicates(HandleIds(handles))
    /\ NoDuplicates(spawnLog)
    /\ Range(TaskIdsOf(task_queue)) \cap Range(spawnLog) = {}
    /\ Range(TaskIdsOf(task_queue)) \cap Range(HandleIds(handles)) = {}

C5_Witness ==
    /\ ticks = MaxTicks
    /\ Len(spawnLog) = MaxTasks
    /\ Len(handles) >= 2

\* The scenario of C6: A, B, C enqueued in that order and the loop started;
\* A and B complete immediately, C runs indefinitely.
ScenarioABC ==
    /\ pc # "new"
    /\ Len(enqueued) = 3
    /\ enqueued[1].name = "A" /\ enqueued[1].body = "immediate"
    /\ enqueued[2].name = "B" /\ enqueued[2].body = "immediate"
    /\ enqueued[3].name = "C" /\ enqueued[3].body = "forever"

\* C6 (as stated): in the scenario, after at least one tick the active set is
\* exactly one handle named C and the pending queue is empty.
C6_OnlyCAfterOneTick ==
    (ScenarioABC /\ TickDone(1)) =>
        HandleNames(handles) = <<"C">> /\ task_queue = <<>>

\* C6 (amended): in the scenario, after at least two ticks the active set is
\* exactly one handle named C and the pending queue is empty, in every later
\* state.
C6_OnlyCAfterTwoTicks ==
    (ScenarioABC /\ TickDone(2)) =>
        HandleNames(handles) = <<"C">> /\ task_queue = <<>>

C6_Witness ==
    /\ ScenarioABC
    /\ ticks = MaxTicks
    /\ HandleNames(handles) = <<"C">>
    /\ pruned = {1, 2}

\* some producer call add_task(task) is possible
AddTaskAny == \E name \in Names, body \in Bodies : AddTask(name, body)

\* C8 (as stated): add_task is callable in every reachable handler state,
\* also after start() (launching, pruning, sleeping).
C8_AddTaskCallableAnyTime ==
    Len(enqueued) < MaxTasks => ENABLED AddTaskAny

\* C8 (amended): add_task is callable at any time before start(), and only
\* then: once start() has taken the handler no producer can enqueue.
C8_AddTaskCallableUntilStart ==
    Len(enqueued) < MaxTasks => ((ENABLED AddTaskAny) <=> pc = "new")

C8_Witness ==
    /\ pc = "sleep"
    /\ Len(enqueued) >= 1
    /\ Len(enqueued) < MaxTasks
    /\ ~ENABLED AddTaskAny

\* C9: add_task never fails or rejects: whatever the queue holds and whatever
\* the task (duplicate names included), the call appends the task at the back,
\* the queue grows by exactly one, the tasks queued before keep their order,
\* and the active set is unchanged.
C9_AddTaskAppends ==
    /\ [](pc = "new" /\ Len(enqueued) < MaxTasks =>
            \A name \in Names, body \in Bodies : ENABLED AddTask(name, body))
    /\ [][enqueued' # enqueued =>
            /\ Len(task_queue') = Len(task_queue) + 1
            /\ SubSeq(task_queue', 1, Len(task_queue)) = task_queue
            /\ task_queue'[Len(task_queue')] = enqueued'[Len(enqueued')]
            /\ handles' = handles]_vars

C9_Witness ==
    /\ Len(task_queue) = MaxTasks
    /\ task_queue[1].name = task_queue[MaxTasks].name
    /\ task_queue[1].body # task_queue[MaxTasks].body

\* C10: the handler never cancels or waits on a task: no handler operation
\* removes the handle of an unfinished computation, waits for a computation, or
\* stops one; a task that runs indefinitely keeps its handle for ever.
C10_NeverCancelsNeverWaits ==
    /\ [](\A i \in Range(spawnLog) :
            Body(i) = "forever" =>
                comp[i] = "running" /\ i \in Range(HandleIds(handles)))
    /\ [](/\ pc = "run_tasks" => ENABLED RunTasks
          /\ pc = "clean_handles" => ENABLED CleanHandles
          /\ pc = "sleep" => ENABLED Wake)
    /\ [][\A k \in 1..Len(handles) :
            comp[handles[k].handle] = "running" => handles[k] \in Range(handles')]_vars
    /\ [][pc # "sleep" =>
            \A i \in TaskIds : comp[i] = "running" => comp'[i] = "running"]_vars

C10_Witness ==
    /\ ticks = MaxTicks
    /\ pc = "sleep"
    /\ pruned # {}
    /\ \E k \in 1..Len(handles) : Body(handles[k].handle) = "forever"
    /\ \E k \in 1..Len(handles) : Body(handles[k].handle) = "finite"

\* finished or not, which is all JoinHandle::is_finished tells
LiveView(i) == IF comp[i] \in Outcomes THEN "finished" ELSE comp[i]

\* C11: the handler observes liveness only: what a handler step does to the
\* pending queue and the active set is a function of the queue, the active set
\* and of which computations have ended, not of how they ended; a panicked
\* task is pruned exactly like one that returned.  (Two runs that differ only
\* in outcomes therefore pass through equal handler states, step by step.)
C11_OutcomeBlind ==
    /\ [][pc = "clean_handles" =>
            /\ handles' = SeqFilter(handles,
                            {h \in Range(handles) : LiveView(h.handle) = "running"})
            /\ pruned' = pruned \cup
                            {i \in Range(HandleIds(handles)) : LiveView(i) = "finished"}
            /\ task_queue' = task_queue]_vars
    /\ [](\A i \in Range(HandleIds(handles)) : comp[i] = "panicked" => i \notin pruned)
    /\ [](pc = "sleep" /\ ticks = 2 =>
            \A i \in Range(spawnLog) :
               (i \in pruned) <=> (Body(i) = "immediate" \/ (i \notin Range(HandleIds(handles)))))

\* one pass has pruned a computation that returned and one that panicked
C11_Witness ==
    /\ pc = "sleep"
    /\ ticks = 2
    /\ \E i, j \in pruned : comp[i] = "ok" /\ comp[j] = "panicked"
    /\ handles # <<>>

\* C12: a task's failure never ends the run loop: with a panicked computation
\* the loop's next phase (launch, prune, wake-up) is still enabled in every
\* state, and it eventually runs each phase again and prunes the other
\* finished tasks.
C12_LoopSurvivesPanic ==
    /\ []((\E i \in TaskIds : comp[i] = "panicked") =>
             /\ pc = "run_tasks" => ENABLED RunTasks
             /\ pc = "clean_handles" => ENABLED CleanHandles
             /\ pc = "sleep" => ENABLED Wake)
    /\ \A i \in TaskIds :
          (comp[i] = "panicked") ~> (pc = "clean_handles" /\ comp[i] = "panicked")
    /\ \A i \in TaskIds :
          (comp[i] = "panicked") ~> (i \in pruned /\ i \notin Range(HandleIds(handles)))

\* a task panicked, and afterwards the loop kept ticking and pruned another
\* task that finished later
C12_Witness ==
    /\ ticks = MaxTicks
    /\ pc = "sleep"
    /\ \E i, j \in pruned : comp[i] = "panicked" /\ comp[j] = "ok" /\ Body(j) = "finite"

\* C13: the run loop has no exit: once started it is always in one of its three
\* phases with the next step enabled, and with the timer firing every phase
\* comes round again, whatever the pending queue and the active set hold.
C13_LoopNeverExits ==
    /\ [](pc \in {"new", "run_tasks", "clean_handles", "sleep"})
    /\ [](pc # "new" => ENABLED (RunTasks \/ CleanHandles \/ Wake))
    /\ [](pc # "new" => <>(pc = "run_tasks"))
    /\ [](pc # "new" => <>(pc = "clean_handles"))
    /\ [](pc # "new" => <>(pc = "sleep"))

\* the loop is still ticking with nothing left to do
C13_Witness ==
    /\ ticks = MaxTicks
    /\ pc = "run_tasks"
    /\ task_queue = <<>>
    /\ handles = <<>>
    /\ pruned # {}

\* C14: pruning is idempotent: clean_handles applied again, with no
\* computation finishing and nothing launched in between, leaves the active set
\* as the first application left it.
C14_PruneIdempotent ==
    Retain(Retain(handles)) = Retain(handles)

C14_Witness ==
    /\ pc = "clean_handles"
    /\ Cardinality({k \in 1..Len(handles) : Finished(handles[k].handle)}) >= 2
    /\ Retain(handles) # handles
    /\ Retain(handles) # <<>>

\* C15: if no task is ever enqueued, the active set stays empty over any
\* number of ticks and no computation is ever spawned.
C15_NothingEnqueuedNothingSpawned ==
    enqueued = <<>> =>
        /\ handles = <<>>
        /\ spawnLog = <<>>
        /\ pruned = {}
        /\ \A i \in TaskIds : comp[i] = "unspawned"

C15_Witness ==
    /\ enqueued = <<>>
    /\ ticks = MaxTicks
    /\ pc = "sleep"

\* C16: every tick runs launch (run_tasks), then prune (clean_handles), then
\* sleep: the prune of a tick runs only after the launch of that tick has
\* drained the queue, and the loop never sleeps between the two.
C16_PhaseOrder ==
    /\ [][/\ pc = "new" => pc' \in {"new", "run_tasks"}
          /\ pc = "run_tasks" => pc' = "clean_handles"
          /\ pc = "clean_handles" => pc' = "sleep"
          /\ pc = "sleep" => pc' \in {"sleep", "run_tasks"}]_vars
    /\ [](pc = "clean_handles" => task_queue = <<>> /\ ticks >= 1)
    /\ [][pc = "run_tasks" => ticks' = Min(ticks + 1, MaxTicks)]_vars
    /\ [][pc # "run_tasks" => ticks' = ticks]_vars

C16_Witness ==
    /\ pc = "sleep"
    /\ ticks = 2
    /\ handles # <<>>
    /\ pruned # {}

\* position of handle h in hs
Pos(h, hs) == CHOOSE k \in 1..Len(hs) : hs[k] = h

\* C17: one clean_handles pass removes all and only the handles finished at
\* the time of the pass, keeps the retained ones in their relative order and
\* leaves the pending queue alone; run_tasks only appends to the active set.
C17_PruneAndLaunchFrames ==
    /\ [][pc = "clean_handles" =>
            /\ Range(handles') = {h \in Range(handles) : ~Finished(h.handle)}
            /\ Len(handles') = Cardinality(Range(handles'))
            /\ \A a, b \in 1..Len(handles') :
                  a < b => Pos(handles'[a], handles) < Pos(handles'[b], handles)
            /\ task_queue' = task_queue]_vars
    /\ [][pc = "run_tasks" =>
            /\ Len(handles') = Len(handles) + Len(task_queue)
            /\ SubSeq(handles', 1, Len(handles)) = handles]_vars

\* a pass removed the first handle and kept the two behind it
C17_Witness ==
    /\ pc = "sleep"
    /\ ticks = 2
    /\ Len(handles) = 2
    /\ pruned = {1}

\* C18: no computation makes progress between the start of run_tasks and the
\* sleep of the same tick: the prune of the tick that created a handle never
\* sees it finished, so every launched task, even one that completes
\* immediately, keeps its handle for at least one sleep and is pruned in the
\* next tick at the earliest.
C18_NoProgressBeforeSleep ==
    /\ pc = "clean_handles" /\ ticks = 1 =>
          \A i \in Range(spawnLog) : comp[i] = "running"
    /\ ticks <= 1 => pruned = {}
    /\ pc = "sleep" /\ ticks = 1 => HandleIds(handles) = TaskIdsOf(enqueued)

\* an immediately completing task has ended and still has its handle
C18_Witness ==
    /\ pc = "sleep"
    /\ ticks = 1
    /\ \E k \in 1..Len(handles) :
          Body(handles[k].handle) = "immediate" /\ Finished(handles[k].handle)

\* C19: while the loop prunes or sleeps the pending queue is empty: every task
\* was enqueued before start(), all of them are spawned in the first tick, and
\* from then on run_tasks launches nothing and the active set only shrinks.
C19_AllLaunchedInFirstTick ==
    /\ [](pc \in {"clean_handles", "sleep"} => task_queue = <<>>)
    /\ [](ticks >= 1 => spawnLog = TaskIdsOf(enqueued) /\ task_queue = <<>>)
    /\ [][pc # "new" => enqueued' = enqueued]_vars
    /\ [][ticks >= 1 =>
            /\ spawnLog' = spawnLog
            /\ Len(handles') <= Len(handles)
            /\ Range(handles') \subseteq Range(handles)]_vars

C19_Witness ==
    /\ pc = "clean_handles"
    /\ ticks = MaxTicks
    /\ Len(spawnLog) = MaxTasks
    /\ Len(handles) < Len(spawnLog)
    /\ handles # <<>>

=============================================================================
